---- MODULE Spec2Model ----
(***************************************************************************)
(* The live-shoot session coordinator (the Pinia store `useShootStore`).   *)
(* Every async operation of the store is split at its network awaits       *)
(* (service requests and channel connect()): one action per atomic        *)
(* segment.  `await initializeServices()` does no I/O and is taken        *)
(* together with the code around it.  The shoot service, the notification  *)
(* channel and the push manager are collaborators whose replies and events *)
(* are chosen nondeterministically.                                        *)
(***************************************************************************)
EXTENDS Integers, Sequences, FiniteSets, TLC

(* ------------------------------ bounds -------------------------------- *)
\* number of 1 ms clock ticks taken after the store is constructed
MaxTicks == 1

(* ------------------------------ domains ------------------------------- *)
Codes == {"AB12", "CD34"}
Archers == {"Alice", "Bob"}
Rounds == {"national"}
\* the name this client's user gives to create, join, leave, update and finish
Callers == {"Alice"}
\* initial (score, arrows) pairs handed to create/join: both 0, or both not
Scores == {0, 10}
NotificationTypes ==
  {"joined_shoot", "left_shoot", "position_change", "score_update",
   "archer_finished", "mystery"}

\* currentShoot.value = null
NoShoot == [code |-> "", participants |-> {}]
Shoots == [code : Codes, participants : SUBSET Archers]
ShootsOf(c) == {s \in Shoots : s.code = c}

\* 24 hours in milliseconds
maxAge == 24 * 60 * 60 * 1000
\* Date.now() when the store is constructed
StartTime == maxAge + 1

\* localStorage.getItem('currentShoot') = null
NoRecord == [shootCode |-> "", archerName |-> "", roundName |-> "", joinedAt |-> 0]

VARIABLES
  currentShoot,            \* ref<Shoot | null>
  isLoading,               \* ref(false)
  connectionStatus,        \* 'disconnected' | 'connecting' | 'connected' | 'error'
  lastUpdateTime,          \* ref<Date | null>; 0 stands for null
  shootService,            \* TRUE once constructed
  webSocketService,        \* TRUE once constructed (listeners registered)
  pushNotificationManager, \* TRUE once constructed
  localStorage,            \* the item stored under 'currentShoot'
  now,                     \* Date.now()
  ticks,                   \* clock ticks taken so far
  wsState,                 \* the channel: "idle" | "connecting" | "open"
  subscribed,              \* codes subscribed on the current connection
  proc,                    \* per operation: where its one call is suspended
  last                     \* what the last step was: operation, input, result, calls made

vars == <<currentShoot, isLoading, connectionStatus, lastUpdateTime, shootService,
          webSocketService, pushNotificationManager, localStorage, now, ticks,
          wsState, subscribed, proc, last>>

storeVars == <<currentShoot, isLoading, connectionStatus, lastUpdateTime>>
serviceVars == <<shootService, webSocketService, pushNotificationManager>>
clockVars == <<now, ticks>>

(* --------------------------- bookkeeping ------------------------------ *)
Ops == {"restore", "create", "join", "viewer", "leave", "update", "finish", "initws"}
Idle == [pc |-> "idle", code |-> "", archerName |-> "", roundName |-> "", score |-> 0]
At(pc, code, archerName, roundName, score) ==
  [pc |-> pc, code |-> code, archerName |-> archerName, roundName |-> roundName,
   score |-> score]
\* one call of each operation at a time; calls of different operations overlap
CanStart(o) == proc[o].pc = "idle"

\* a call made on a collaborator during a step
Call(name, code) == [call |-> name, code |-> code, archerName |-> "", score |-> 0]
CallA(name, code, archerName, score) ==
  [call |-> name, code |-> code, archerName |-> archerName, score |-> score]
\* what a step received: a service reply or an event payload
NoInput == [kind |-> "", code |-> "", shoot |-> NoShoot, type |-> "", archerName |-> ""]
Reply(kind, shoot) ==
  [kind |-> kind, code |-> shoot.code, shoot |-> shoot, type |-> "", archerName |-> ""]
\* `at` is the segment of the operation that ran: "call", or the await it resumed from
Step(op, at, inp, ret, fx) == [op |-> op, at |-> at, inp |-> inp, ret |-> ret, fx |-> fx]
Ev(op, inp, ret, fx) == Step(op, "event", inp, ret, fx)
\* the calls of a step, as recorded in its `fx`
Made(fx, call) == \E i \in DOMAIN fx : fx[i] = call
MadeCall(fx, name) == \E i \in DOMAIN fx : fx[i].call = name

\* the replies of a service call that returns {success, shoot?} for `code`
Results(code) ==
  {Reply("ok", s) : s \in ShootsOf(code)} \cup {Reply("fail", NoShoot), Reply("throw", NoShoot)}
\* the replies of getShoot(code): a shoot, null, or an exception
Fetched(code) ==
  {Reply("ok", s) : s \in ShootsOf(code)} \cup {Reply("null", NoShoot), Reply("throw", NoShoot)}

(* ----------------------- LocalStorage helpers ------------------------- *)
\* a save that names the session that was current when the call was resumed
saveShootState_previous(code, archerName, roundName) ==
  [shootCode |-> IF currentShoot # NoShoot THEN currentShoot.code ELSE code,
   archerName |-> archerName, roundName |-> roundName, joinedAt |-> now]

saveShootState(code, archerName, roundName) ==
  [shootCode |-> code, archerName |-> archerName, roundName |-> roundName, joinedAt |-> now]

clearPersistedShootState == NoRecord

\* the age test with >= : a record exactly 24 hours old is dropped
isExpired_atLimit(state) == now - state.joinedAt >= maxAge

isExpired(state) == now - state.joinedAt > maxAge

\* a reader that reports an expired record as absent and leaves it stored
getPersistedShootState_keepsExpired ==
  IF localStorage = NoRecord \/ isExpired(localStorage) THEN <<NoRecord, localStorage>>
  ELSE <<localStorage, localStorage>>

\* <<the state returned (NoRecord for null), the item left in storage>>
getPersistedShootState ==
  IF localStorage = NoRecord THEN <<NoRecord, localStorage>>
  ELSE IF isExpired(localStorage) THEN <<NoRecord, clearPersistedShootState>>
  ELSE <<localStorage, localStorage>>

(* ------------------------------ Init ---------------------------------- *)
\* Records a previous page load may have left behind: written by
\* saveShootState at some earlier time (expired, exactly 24 h old, fresh).
StoredAtStart ==
  {NoRecord} \cup
  [shootCode : Codes, archerName : Callers, roundName : Rounds, joinedAt : {0, 1, StartTime}]

Init ==
  /\ currentShoot = NoShoot
  /\ isLoading = FALSE
  /\ connectionStatus = "disconnected"
  /\ lastUpdateTime = 0
  /\ shootService = FALSE
  /\ webSocketService = FALSE
  /\ pushNotificationManager = FALSE
  /\ localStorage \in StoredAtStart
  /\ now = StartTime
  /\ ticks = 0
  /\ wsState = "idle"
  /\ subscribed = {}
  /\ proc = [o \in Ops |-> Idle]
  /\ last = Step("init", "", NoInput, "", <<>>)

Tick ==
  /\ ticks < MaxTicks
  /\ ticks' = ticks + 1
  /\ now' = now + 1
  /\ last' = Step("tick", "", NoInput, "", <<>>)
  /\ UNCHANGED <<storeVars, serviceVars, localStorage, wsState, subscribed, proc>>

(* ------------------------- Initialize services ------------------------ *)
\* shootService and webSocketService are constructed on first use; the
\* listeners below are registered when the channel object is made.
initializeServices ==
  /\ shootService' = TRUE
  /\ webSocketService' = TRUE

initializePushNotifications == pushNotificationManager' = TRUE

(* -------------------- the channel (collaborator) ---------------------- *)
isConnected == wsState = "open"
\* subscribeToShoot(code) / unsubscribeFromShoot(code) / connect() / disconnect()
subscribeToShoot(subs, code) == subs \cup {code}
unsubscribeFromShoot(subs, code) == subs \ {code}
connect(state) == IF state = "open" THEN "open" ELSE "connecting"

(* ---------------------- setupWebSocketListeners ----------------------- *)
\* currentShoot.value?.code === code
isCurrentCode(code) == currentShoot # NoShoot /\ currentShoot.code = code

\* a handler that only shows the status and leaves subscribing to the flows
websocketConnected_fx_statusOnly == <<>>

\* if (currentShoot.value) webSocketService.subscribeToShoot(currentShoot.value.code)
websocketConnected_fx ==
  IF currentShoot # NoShoot THEN <<Call("subscribeToShoot", currentShoot.code)>> ELSE <<>>

\* 'websocket-connected': the channel opened (first connect or reconnect)
websocket_connected ==
  /\ webSocketService
  /\ wsState = "connecting"
  /\ wsState' = "open"
  /\ connectionStatus' = "connected"
  /\ subscribed' = IF currentShoot # NoShoot
                     THEN subscribeToShoot(subscribed, currentShoot.code)
                     ELSE subscribed
  /\ last' = Ev("websocket-connected", NoInput, "", websocketConnected_fx)
  /\ UNCHANGED <<currentShoot, isLoading, lastUpdateTime, serviceVars, localStorage,
                 clockVars, proc>>

\* a handler that gives the session up when the connection drops
websocket_disconnected_forgets ==
  /\ webSocketService
  /\ wsState = "open"
  /\ wsState' = "connecting"
  /\ subscribed' = {}
  /\ connectionStatus' = "disconnected"
  /\ currentShoot' = NoShoot
  /\ last' = Ev("websocket-disconnected", NoInput, "", <<>>)
  /\ UNCHANGED <<isLoading, lastUpdateTime, serviceVars, localStorage, clockVars, proc>>

\* 'websocket-disconnected': the connection dropped; the channel retries by itself
websocket_disconnected ==
  /\ webSocketService
  /\ wsState = "open"
  /\ wsState' = "connecting"
  /\ subscribed' = {}
  /\ connectionStatus' = "disconnected"
  /\ last' = Ev("websocket-disconnected", NoInput, "", <<>>)
  /\ UNCHANGED <<currentShoot, isLoading, lastUpdateTime, serviceVars, localStorage,
                 clockVars, proc>>

websocket_error ==
  /\ webSocketService
  /\ wsState # "idle"
  /\ connectionStatus' = "error"
  /\ last' = Ev("websocket-error", NoInput, "", <<>>)
  /\ UNCHANGED <<currentShoot, isLoading, lastUpdateTime, serviceVars, localStorage,
                 clockVars, wsState, subscribed, proc>>

websocket_reconnecting ==
  /\ webSocketService
  /\ wsState = "connecting"
  /\ connectionStatus' = "connecting"
  /\ last' = Ev("websocket-reconnecting", NoInput, "", <<>>)
  /\ UNCHANGED <<currentShoot, isLoading, lastUpdateTime, serviceVars, localStorage,
                 clockVars, wsState, subscribed, proc>>

\* a handler that keeps the fuller of the two snapshots instead of the newest
shootUpdated_shoot_fullest(detail) ==
  IF isCurrentCode(detail.code)
     /\ Cardinality(detail.shoot.participants) >= Cardinality(currentShoot.participants)
    THEN detail.shoot ELSE currentShoot

\* a handler that adds the payload's participants to the ones it has
shootUpdated_shoot_merged(detail) ==
  IF isCurrentCode(detail.code)
    THEN [code |-> detail.shoot.code,
          participants |-> currentShoot.participants \cup detail.shoot.participants]
    ELSE currentShoot

\* a handler without the code filter
shootUpdated_shoot_unfiltered(detail) == detail.shoot

\* 'shoot-updated' with detail {shootCode, shoot}: what currentShoot becomes
shootUpdated_shoot(detail) ==
  IF isCurrentCode(detail.code) THEN detail.shoot ELSE currentShoot

\* a handler that leaves the time of the last update alone
shootUpdated_time_kept(detail) == lastUpdateTime

\* lastUpdateTime.value = new Date(), inside the code filter
shootUpdated_time(detail) == IF isCurrentCode(detail.code) THEN now ELSE lastUpdateTime

shoot_updated(detail) ==
  /\ webSocketService
  /\ wsState = "open"
  /\ currentShoot' = shootUpdated_shoot(detail)
  /\ lastUpdateTime' = shootUpdated_time(detail)
  /\ IF isCurrentCode(detail.code)
       THEN last' = Ev("shoot-updated", detail, "applied", <<>>)
       ELSE last' = Ev("shoot-updated", detail, "discarded", <<>>)
  /\ UNCHANGED <<isLoading, connectionStatus, serviceVars, localStorage, clockVars,
                 wsState, subscribed, proc>>

ShootUpdatedDetails == {Reply("event", s) : s \in Shoots}

(* ----------------------- initializeWebSocket -------------------------- *)
\* an initializeWebSocket that leaves the status to the listeners
initializeWebSocket_status_untouched == connectionStatus

\* The part of initializeWebSocket before its await: the push manager is
\* made, then either the channel is already connected (no await) or
\* connect() is called and the caller suspends.
initializeWebSocket_status == IF isConnected THEN "connected" ELSE "connecting"
\* the replies of `await webSocketService.connect()`
ConnectOutcomes ==
  {r \in {Reply("ok", NoShoot), Reply("throw", NoShoot)} :
     (r.kind = "ok") = (wsState = "open")}
\* a catch that only logs the rejected connect()
afterConnect_status_logged(r) == connectionStatus

\* after the await: a rejected connect() is caught and shown as 'error'
afterConnect_status(r) == IF r.kind = "throw" THEN "error" ELSE connectionStatus
\* if (webSocketService && webSocketService.isConnected()) subscribeToShoot(code)
subscribeIfConnected(code) ==
  IF isConnected THEN subscribeToShoot(subscribed, code) ELSE subscribed
\* a flow that leaves subscribing to the 'websocket-connected' listener
subscribeIfConnected_fx_left(code) == <<>>
\* the call that goes with subscribeIfConnected
subscribeIfConnected_fx(code) ==
  IF isConnected THEN <<Call("subscribeToShoot", code)>> ELSE <<>>

(* -------------------- tryRestoreFromPersistedState -------------------- *)
restoreName == "tryRestoreFromPersistedState"

tryRestore_call ==
  /\ CanStart("restore")
  /\ LET state == getPersistedShootState[1] IN
     /\ localStorage' = getPersistedShootState[2]
     /\ IF state = NoRecord
          THEN /\ last' = Step(restoreName, "call", NoInput, "false", <<>>)
               /\ UNCHANGED <<serviceVars, proc>>
          ELSE /\ initializeServices
               /\ proc' = [proc EXCEPT !["restore"] =
                             At("getShoot", state.shootCode, state.archerName, "", 0)]
               /\ last' = Step(restoreName, "call", NoInput, "",
                               <<Call("getShoot", state.shootCode)>>)
               /\ UNCHANGED pushNotificationManager
  /\ UNCHANGED <<storeVars, clockVars, wsState, subscribed>>

\* a membership test that only asks whether anyone is listed
isStillParticipant_anyone(shoot, archerName) == shoot.participants # {}

\* shoot.participants.some(p => p.archerName === persistedState.archerName)
isStillParticipant(shoot, archerName) == archerName \in shoot.participants

tryRestore_getShoot(r) ==
  LET p == proc["restore"] IN
  /\ p.pc = "getShoot"
  /\ r \in Fetched(p.code)
  /\ IF r.kind = "ok" /\ isStillParticipant(r.shoot, p.archerName)
       THEN /\ currentShoot' = r.shoot
            /\ initializePushNotifications
            /\ connectionStatus' = initializeWebSocket_status
            /\ UNCHANGED localStorage
            /\ IF isConnected
                 THEN /\ subscribed' = subscribeToShoot(subscribed, p.code)
                      /\ proc' = [proc EXCEPT !["restore"] = Idle]
                      /\ last' = Step(restoreName, "getShoot", r, "true",
                                      <<Call("subscribeToShoot", p.code)>>)
                      /\ UNCHANGED wsState
                 ELSE /\ wsState' = connect(wsState)
                      /\ proc' = [proc EXCEPT !["restore"].pc = "connect"]
                      /\ last' = Step(restoreName, "getShoot", r, "", <<Call("connect", "")>>)
                      /\ UNCHANGED subscribed
       ELSE \* shoot gone, archer no longer listed, or the service threw
            /\ localStorage' = clearPersistedShootState
            /\ proc' = [proc EXCEPT !["restore"] = Idle]
            /\ last' = Step(restoreName, "getShoot", r, "false", <<>>)
            /\ UNCHANGED <<currentShoot, connectionStatus, pushNotificationManager,
                           wsState, subscribed>>
  /\ UNCHANGED <<isLoading, lastUpdateTime, shootService, webSocketService, clockVars>>

tryRestore_connect(r) ==
  LET p == proc["restore"] IN
  /\ p.pc = "connect"
  /\ r \in ConnectOutcomes
  /\ connectionStatus' = afterConnect_status(r)
  /\ subscribed' = subscribeIfConnected(p.code)
  /\ proc' = [proc EXCEPT !["restore"] = Idle]
  /\ last' = Step(restoreName, "connect", r, "true", subscribeIfConnected_fx(p.code))
  /\ UNCHANGED <<currentShoot, isLoading, lastUpdateTime, serviceVars, localStorage,
                 clockVars, wsState>>

tryRestoreFromPersistedState ==
  \/ tryRestore_call
  \/ \E r \in Fetched(proc["restore"].code) : tryRestore_getShoot(r)
  \/ \E r \in ConnectOutcomes : tryRestore_connect(r)

(* ------------------------------ cleanup ------------------------------- *)
\* a cleanup that purges the record as leaveShoot does
cleanup_storage_purged == clearPersistedShootState

\* "Don't clear persisted state on cleanup - only on explicit leave"
cleanup_storage == localStorage

\* the calls of the store's inner cleanup(), which the exported one replaces:
\* it leaves the push settings alone
cleanup_fx_inner == IF webSocketService THEN <<Call("disconnect", "")>> ELSE <<>>

\* the calls the exported cleanup makes
cleanup_fx ==
  (IF webSocketService THEN <<Call("disconnect", "")>> ELSE <<>>) \o
  (IF pushNotificationManager /\ currentShoot # NoShoot
     THEN <<Call("clearShootSettings", currentShoot.code)>> ELSE <<>>)

\* the exported cleanup (the one callers get)
cleanup ==
  /\ IF webSocketService
       THEN wsState' = "idle" /\ subscribed' = {}
       ELSE UNCHANGED <<wsState, subscribed>>
  /\ last' = Step("cleanup", "call", NoInput, "void", cleanup_fx)
  /\ currentShoot' = NoShoot
  /\ connectionStatus' = "disconnected"
  /\ localStorage' = cleanup_storage
  /\ UNCHANGED <<isLoading, lastUpdateTime, serviceVars, clockVars, proc>>

Failed(what) == <<Call("toast.error", what)>>

(* ----------------------------- leaveShoot ----------------------------- *)
LeaveReplies == {Reply("ok", NoShoot), Reply("fail", NoShoot), Reply("throw", NoShoot)}

leaveShoot_call(archerName) ==
  /\ CanStart("leave")
  /\ IF ~shootService \/ currentShoot = NoShoot
       THEN /\ last' = Step("leaveShoot", "call", NoInput, "void", <<>>)
            /\ UNCHANGED <<isLoading, proc>>
       ELSE /\ isLoading' = TRUE
            /\ proc' = [proc EXCEPT !["leave"] = At("leave", currentShoot.code, "", "", 0)]
            /\ last' = Step("leaveShoot", "call", NoInput, "",
                            <<CallA("leaveShoot", currentShoot.code, archerName, 0)>>)
  /\ UNCHANGED <<currentShoot, connectionStatus, lastUpdateTime, serviceVars,
                 localStorage, clockVars, wsState, subscribed>>

\* the code leaveShoot unsubscribes after the await: it reads currentShoot again
leaveShoot_code(sent) == currentShoot.code

\* a leave that takes any reply for success
leaveSucceeded_anyReply(r) == r.kind # "throw"

\* result.success
leaveSucceeded(r) == r.kind = "ok"

leaveShoot_leave(r) ==
  LET p == proc["leave"] IN
  /\ p.pc = "leave"
  /\ r \in LeaveReplies
  /\ IF leaveSucceeded(r) /\ currentShoot # NoShoot
       THEN /\ subscribed' = unsubscribeFromShoot(subscribed, leaveShoot_code(p.code))
            /\ localStorage' = clearPersistedShootState
            /\ currentShoot' = NoShoot
            /\ last' = Step("leaveShoot", "leave", r, "void",
                            <<Call("unsubscribeFromShoot", leaveShoot_code(p.code))>>)
       ELSE \* success false, the service threw, or currentShoot.value is null
            \* by now and reading its code threw: all end in the same toast
            /\ last' = Step("leaveShoot", "leave", r, "void",
                            Failed("Failed to leave shoot"))
            /\ UNCHANGED <<currentShoot, localStorage, subscribed>>
  /\ isLoading' = FALSE
  /\ proc' = [proc EXCEPT !["leave"] = Idle]
  /\ UNCHANGED <<connectionStatus, lastUpdateTime, serviceVars, clockVars, wsState>>

leaveShoot ==
  \/ \E a \in Callers : leaveShoot_call(a)
  \/ \E r \in LeaveReplies : leaveShoot_leave(r)

(* ----------------------------- createShoot ---------------------------- *)
\* the session the service's createShoot returns: no participants yet
BareShoot(code) == [code |-> code, participants |-> {}]
CreateReplies == {Reply("ok", BareShoot(c)) : c \in Codes} \cup {Reply("throw", NoShoot)}

createShoot_call(creatorName, roundName, currentScore) ==
  /\ CanStart("create")
  /\ initializeServices
  /\ isLoading' = TRUE
  /\ proc' = [proc EXCEPT !["create"] = At("create", "", creatorName, roundName, currentScore)]
  /\ last' = Step("createShoot", "call", NoInput, "",
                  <<CallA("createShoot", "", creatorName, 0)>>)
  /\ UNCHANGED <<currentShoot, connectionStatus, lastUpdateTime, pushNotificationManager,
                 localStorage, clockVars, wsState, subscribed>>

\* a catch that returns after the toast, as joinShoot's does
createShoot_throw_swallowed(at, r) ==
  /\ isLoading' = FALSE
  /\ proc' = [proc EXCEPT !["create"] = Idle]
  /\ last' = Step("createShoot", at, r, "void", Failed("Failed to create shoot"))

\* catch: toast, rethrow; finally: isLoading = false
createShoot_throw(at, r) ==
  /\ isLoading' = FALSE
  /\ proc' = [proc EXCEPT !["create"] = Idle]
  /\ last' = Step("createShoot", at, r, "threw", Failed("Failed to create shoot"))

createShoot_issueJoin(p, code) ==
  <<CallA("joinShoot", code, p.archerName, 0)>>

createShoot_create(r) ==
  LET p == proc["create"] IN
  /\ p.pc = "create"
  /\ r \in CreateReplies
  /\ IF r.kind = "throw"
       THEN /\ createShoot_throw("create", r)
            /\ UNCHANGED <<connectionStatus, pushNotificationManager, wsState, subscribed>>
       ELSE /\ initializePushNotifications
            /\ connectionStatus' = initializeWebSocket_status
            /\ UNCHANGED isLoading
            /\ IF isConnected
                 THEN /\ subscribed' = subscribeToShoot(subscribed, r.code)
                      /\ proc' = [proc EXCEPT !["create"].pc = "join",
                                              !["create"].code = r.code]
                      /\ last' = Step("createShoot", "create", r, "",
                                      <<Call("subscribeToShoot", r.code)>> \o
                                      createShoot_issueJoin(p, r.code))
                      /\ UNCHANGED wsState
                 ELSE /\ wsState' = connect(wsState)
                      /\ proc' = [proc EXCEPT !["create"].pc = "connect",
                                              !["create"].code = r.code]
                      /\ last' = Step("createShoot", "create", r, "", <<Call("connect", "")>>)
                      /\ UNCHANGED subscribed
  /\ UNCHANGED <<currentShoot, lastUpdateTime, shootService, webSocketService,
                 localStorage, clockVars>>

createShoot_connect(r) ==
  LET p == proc["create"] IN
  /\ p.pc = "connect"
  /\ r \in ConnectOutcomes
  /\ connectionStatus' = afterConnect_status(r)
  /\ subscribed' = subscribeIfConnected(p.code)
  /\ proc' = [proc EXCEPT !["create"].pc = "join"]
  /\ last' = Step("createShoot", "connect", r, "",
                  subscribeIfConnected_fx(p.code) \o createShoot_issueJoin(p, p.code))
  /\ UNCHANGED <<currentShoot, isLoading, lastUpdateTime, serviceVars, localStorage,
                 clockVars, wsState>>

\* a sync that is skipped when there is nothing scored yet
syncScore_skipZero(code, archerName, currentScore) ==
  IF currentScore = 0 THEN <<>> ELSE <<CallA("updateScore", code, archerName, currentScore)>>

\* "Always update score/arrows to sync current state, even if both are 0"
syncScore(code, archerName, currentScore) ==
  <<CallA("updateScore", code, archerName, currentScore)>>

\* a join that only a thrown error fails
joinSucceeded_lenient(r) == r.kind # "throw"

\* joinResult.success && joinResult.shoot
joinSucceeded(r) == r.kind = "ok"

createShoot_join(r) ==
  LET p == proc["create"] IN
  /\ p.pc = "join"
  /\ r \in Results(p.code)
  /\ IF r.kind = "throw"
       THEN /\ createShoot_throw("join", r)
            /\ UNCHANGED <<currentShoot, localStorage>>
       ELSE IF joinSucceeded(r)
       THEN /\ currentShoot' = r.shoot
            /\ localStorage' = saveShootState(p.code, p.archerName, p.roundName)
            /\ proc' = [proc EXCEPT !["create"].pc = "sync"]
            /\ last' = Step("createShoot", "join", r, "",
                            syncScore(p.code, p.archerName, p.score))
            /\ UNCHANGED isLoading
       ELSE \* "Fallback to the original shoot if join fails"
            /\ currentShoot' = BareShoot(p.code)
            /\ isLoading' = FALSE
            /\ proc' = [proc EXCEPT !["create"] = Idle]
            /\ last' = Step("createShoot", "join", r, "void", <<>>)
            /\ UNCHANGED localStorage
  /\ UNCHANGED <<connectionStatus, lastUpdateTime, serviceVars, clockVars, wsState,
                 subscribed>>

\* a sync whose reply is only looked at for errors
afterSync_ignored(r) == currentShoot

\* if (scoreResult.success && scoreResult.shoot) currentShoot.value = scoreResult.shoot
afterSync(r) == IF r.kind = "ok" THEN r.shoot ELSE currentShoot

createShoot_sync(r) ==
  LET p == proc["create"] IN
  /\ p.pc = "sync"
  /\ r \in Results(p.code)
  /\ IF r.kind = "throw"
       THEN /\ createShoot_throw("sync", r)
            /\ UNCHANGED currentShoot
       ELSE /\ currentShoot' = afterSync(r)
            /\ isLoading' = FALSE
            /\ proc' = [proc EXCEPT !["create"] = Idle]
            /\ last' = Step("createShoot", "sync", r, "void", <<>>)
  /\ UNCHANGED <<connectionStatus, lastUpdateTime, serviceVars, localStorage, clockVars,
                 wsState, subscribed>>

createShoot ==
  \/ \E a \in Callers, rn \in Rounds, s \in Scores : createShoot_call(a, rn, s)
  \/ \E r \in CreateReplies : createShoot_create(r)
  \/ \E r \in ConnectOutcomes : createShoot_connect(r)
  \/ \E r \in Results(proc["create"].code) : createShoot_join(r)
  \/ \E r \in Results(proc["create"].code) : createShoot_sync(r)

(* ------------------------------ joinShoot ----------------------------- *)
joinShoot_call(code, archerName, roundName, currentScore) ==
  /\ CanStart("join")
  /\ initializeServices
  /\ isLoading' = TRUE
  /\ proc' = [proc EXCEPT !["join"] = At("join", code, archerName, roundName, currentScore)]
  /\ last' = Step("joinShoot", "call", NoInput, "",
                  <<CallA("joinShoot", code, archerName, 0)>>)
  /\ UNCHANGED <<currentShoot, connectionStatus, lastUpdateTime, pushNotificationManager,
                 localStorage, clockVars, wsState, subscribed>>

\* a catch that rethrows after the toast, as createShoot's does
joinShoot_false_rethrown(at, r, what) ==
  /\ isLoading' = FALSE
  /\ proc' = [proc EXCEPT !["join"] = Idle]
  /\ last' = Step("joinShoot", at, r, "threw", Failed(what))

\* return false (after a toast); finally: isLoading = false
joinShoot_false(at, r, what) ==
  /\ isLoading' = FALSE
  /\ proc' = [proc EXCEPT !["join"] = Idle]
  /\ last' = Step("joinShoot", at, r, "false", Failed(what))

joinShoot_join(r) ==
  LET p == proc["join"] IN
  /\ p.pc = "join"
  /\ r \in Results(p.code)
  /\ IF ~joinSucceeded(r)
       THEN /\ joinShoot_false("join", r, IF r.kind = "throw" THEN "Failed to join shoot"
                                          ELSE "Failed to join shoot - shoot not found")
            /\ UNCHANGED <<currentShoot, connectionStatus, pushNotificationManager,
                           localStorage, wsState, subscribed>>
       ELSE /\ currentShoot' = r.shoot
            /\ localStorage' = saveShootState(p.code, p.archerName, p.roundName)
            /\ initializePushNotifications
            /\ connectionStatus' = initializeWebSocket_status
            /\ UNCHANGED isLoading
            /\ IF isConnected
                 THEN /\ subscribed' = subscribeToShoot(subscribed, p.code)
                      /\ proc' = [proc EXCEPT !["join"].pc = "sync"]
                      /\ last' = Step("joinShoot", "join", r, "",
                                      <<Call("subscribeToShoot", p.code)>> \o
                                      syncScore(p.code, p.archerName, p.score))
                      /\ UNCHANGED wsState
                 ELSE /\ wsState' = connect(wsState)
                      /\ proc' = [proc EXCEPT !["join"].pc = "connect"]
                      /\ last' = Step("joinShoot", "join", r, "", <<Call("connect", "")>>)
                      /\ UNCHANGED subscribed
  /\ UNCHANGED <<lastUpdateTime, shootService, webSocketService, clockVars>>

joinShoot_connect(r) ==
  LET p == proc["join"] IN
  /\ p.pc = "connect"
  /\ r \in ConnectOutcomes
  /\ connectionStatus' = afterConnect_status(r)
  /\ subscribed' = subscribeIfConnected(p.code)
  /\ proc' = [proc EXCEPT !["join"].pc = "sync"]
  /\ last' = Step("joinShoot", "connect", r, "",
                  subscribeIfConnected_fx(p.code) \o syncScore(p.code, p.archerName, p.score))
  /\ UNCHANGED <<currentShoot, isLoading, lastUpdateTime, serviceVars, localStorage,
                 clockVars, wsState>>

joinShoot_sync(r) ==
  LET p == proc["join"] IN
  /\ p.pc = "sync"
  /\ r \in Results(p.code)
  /\ IF r.kind = "throw"
       THEN /\ joinShoot_false("sync", r, "Failed to join shoot")
            /\ UNCHANGED currentShoot
       ELSE /\ currentShoot' = afterSync(r)
            /\ isLoading' = FALSE
            /\ proc' = [proc EXCEPT !["join"] = Idle]
            /\ last' = Step("joinShoot", "sync", r, "true", <<>>)
  /\ UNCHANGED <<connectionStatus, lastUpdateTime, serviceVars, localStorage, clockVars,
                 wsState, subscribed>>

joinShoot ==
  \/ \E c \in Codes, a \in Callers, rn \in Rounds, s \in Scores : joinShoot_call(c, a, rn, s)
  \/ \E r \in Results(proc["join"].code) : joinShoot_join(r)
  \/ \E r \in ConnectOutcomes : joinShoot_connect(r)
  \/ \E r \in Results(proc["join"].code) : joinShoot_sync(r)

(* --------------------------- connectAsViewer -------------------------- *)
connectAsViewer_call(code) ==
  /\ CanStart("viewer")
  /\ initializeServices
  /\ isLoading' = TRUE
  /\ proc' = [proc EXCEPT !["viewer"] = At("getShoot", code, "", "", 0)]
  /\ last' = Step("connectAsViewer", "call", NoInput, "", <<Call("getShoot", code)>>)
  /\ UNCHANGED <<currentShoot, connectionStatus, lastUpdateTime, pushNotificationManager,
                 localStorage, clockVars, wsState, subscribed>>

\* a test that takes every reply of getShoot for a session
viewerFound_anyReply(r) == r.kind # "throw"

\* if (shoot)
viewerFound(r) == r.kind = "ok"

connectAsViewer_getShoot(r) ==
  LET p == proc["viewer"] IN
  /\ p.pc = "getShoot"
  /\ r \in Fetched(p.code)
  /\ IF ~viewerFound(r)
       THEN /\ isLoading' = FALSE
            /\ proc' = [proc EXCEPT !["viewer"] = Idle]
            /\ last' = Step("connectAsViewer", "getShoot", r, "false", <<>>)
            /\ UNCHANGED <<currentShoot, connectionStatus, pushNotificationManager,
                           wsState, subscribed>>
       ELSE /\ currentShoot' = r.shoot
            /\ initializePushNotifications
            /\ connectionStatus' = initializeWebSocket_status
            /\ IF isConnected
                 THEN /\ subscribed' = subscribeToShoot(subscribed, p.code)
                      /\ isLoading' = FALSE
                      /\ proc' = [proc EXCEPT !["viewer"] = Idle]
                      /\ last' = Step("connectAsViewer", "getShoot", r, "true",
                                      <<Call("subscribeToShoot", p.code)>>)
                      /\ UNCHANGED wsState
                 ELSE /\ wsState' = connect(wsState)
                      /\ proc' = [proc EXCEPT !["viewer"].pc = "connect"]
                      /\ last' = Step("connectAsViewer", "getShoot", r, "",
                                      <<Call("connect", "")>>)
                      /\ UNCHANGED <<subscribed, isLoading>>
  /\ UNCHANGED <<lastUpdateTime, shootService, webSocketService, localStorage, clockVars>>

connectAsViewer_connect(r) ==
  LET p == proc["viewer"] IN
  /\ p.pc = "connect"
  /\ r \in ConnectOutcomes
  /\ connectionStatus' = afterConnect_status(r)
  /\ subscribed' = subscribeIfConnected(p.code)
  /\ isLoading' = FALSE
  /\ proc' = [proc EXCEPT !["viewer"] = Idle]
  /\ last' = Step("connectAsViewer", "connect", r, "true", subscribeIfConnected_fx(p.code))
  /\ UNCHANGED <<currentShoot, lastUpdateTime, serviceVars, localStorage, clockVars, wsState>>

connectAsViewer ==
  \/ \E c \in Codes : connectAsViewer_call(c)
  \/ \E r \in Fetched(proc["viewer"].code) : connectAsViewer_getShoot(r)
  \/ \E r \in ConnectOutcomes : connectAsViewer_connect(r)

(* ----------------------- updateScore / finishShoot -------------------- *)
updateScore_call(archerName, totalScore) ==
  /\ CanStart("update")
  /\ IF ~shootService \/ currentShoot = NoShoot
       THEN /\ last' = Step("updateScore", "call", NoInput, "void", <<>>)
            /\ UNCHANGED proc
       ELSE /\ proc' = [proc EXCEPT !["update"] = At("update", currentShoot.code, "", "", 0)]
            /\ last' = Step("updateScore", "call", NoInput, "",
                            <<CallA("updateScore", currentShoot.code, archerName, totalScore)>>)
  /\ UNCHANGED <<storeVars, serviceVars, localStorage, clockVars, wsState, subscribed>>

\* an updateScore that adopts the returned snapshot, as the sync of join does
updateScore_shoot_adopted(r) == IF r.kind = "ok" THEN r.shoot ELSE currentShoot

\* the success branch is empty: the update comes back over the channel
updateScore_shoot(r) == currentShoot

updateScore_update(r) ==
  LET p == proc["update"] IN
  /\ p.pc = "update"
  /\ r \in Results(p.code)
  /\ currentShoot' = updateScore_shoot(r)
  /\ proc' = [proc EXCEPT !["update"] = Idle]
  /\ last' = Step("updateScore", "update", r, "void",
                  IF r.kind = "fail" THEN Failed("Failed to update score") ELSE <<>>)
  /\ UNCHANGED <<isLoading, connectionStatus, lastUpdateTime, serviceVars, localStorage,
                 clockVars, wsState, subscribed>>

updateScore ==
  \/ \E a \in Callers, s \in Scores : updateScore_call(a, s)
  \/ \E r \in Results(proc["update"].code) : updateScore_update(r)

finishShoot_call(archerName, totalScore) ==
  /\ CanStart("finish")
  /\ IF ~shootService \/ currentShoot = NoShoot
       THEN /\ last' = Step("finishShoot", "call", NoInput, "void", <<>>)
            /\ UNCHANGED proc
       ELSE /\ proc' = [proc EXCEPT !["finish"] = At("finish", currentShoot.code, "", "", 0)]
            /\ last' = Step("finishShoot", "call", NoInput, "",
                            <<CallA("finishShoot", currentShoot.code, archerName, totalScore)>>)
  /\ UNCHANGED <<storeVars, serviceVars, localStorage, clockVars, wsState, subscribed>>

\* a finish that only a thrown error fails
finishSucceeded_lenient(r) == r.kind # "throw"

\* result.success && result.shoot
finishSucceeded(r) == r.kind = "ok"

finishShoot_finish(r) ==
  LET p == proc["finish"] IN
  /\ p.pc = "finish"
  /\ r \in Results(p.code)
  /\ proc' = [proc EXCEPT !["finish"] = Idle]
  /\ IF finishSucceeded(r)
       THEN /\ currentShoot' = r.shoot
            /\ last' = Step("finishShoot", "finish", r, "void",
                            <<Call("toast.success", "Round completed and score locked!")>>)
       ELSE /\ last' = Step("finishShoot", "finish", r, "void", Failed("Failed to finish shoot"))
            /\ UNCHANGED currentShoot
  /\ UNCHANGED <<isLoading, connectionStatus, lastUpdateTime, serviceVars, localStorage,
                 clockVars, wsState, subscribed>>

finishShoot ==
  \/ \E a \in Callers, s \in Scores : finishShoot_call(a, s)
  \/ \E r \in Results(proc["finish"].code) : finishShoot_finish(r)

(* ------------------- initializeWebSocket (exported) ------------------- *)
initializeWebSocket_call ==
  /\ CanStart("initws")
  /\ initializeServices
  /\ initializePushNotifications
  /\ connectionStatus' = initializeWebSocket_status
  /\ IF isConnected
       THEN /\ last' = Step("initializeWebSocket", "call", NoInput, "void", <<>>)
            /\ UNCHANGED <<wsState, proc>>
       ELSE /\ wsState' = connect(wsState)
            /\ proc' = [proc EXCEPT !["initws"] = At("connect", "", "", "", 0)]
            /\ last' = Step("initializeWebSocket", "call", NoInput, "", <<Call("connect", "")>>)
  /\ UNCHANGED <<currentShoot, isLoading, lastUpdateTime, localStorage, clockVars, subscribed>>

initializeWebSocket_connect(r) ==
  /\ proc["initws"].pc = "connect"
  /\ r \in ConnectOutcomes
  /\ connectionStatus' = afterConnect_status(r)
  /\ proc' = [proc EXCEPT !["initws"] = Idle]
  /\ last' = Step("initializeWebSocket", "connect", r, "void", <<>>)
  /\ UNCHANGED <<currentShoot, isLoading, lastUpdateTime, serviceVars, localStorage,
                 clockVars, wsState, subscribed>>

initializeWebSocket ==
  \/ initializeWebSocket_call
  \/ \E r \in ConnectOutcomes : initializeWebSocket_connect(r)

(* ------------------------- shoot-notification ------------------------- *)
\* detail {shootCode, notification: {type, archerName, shoot?}}
Notification(code, type, archerName, shoot) ==
  [kind |-> "event", code |-> code, shoot |-> shoot, type |-> type, archerName |-> archerName]
NotificationDetails ==
  {Notification(c, t, a, s) : c \in Codes, t \in NotificationTypes, a \in Archers,
                              s \in Shoots \cup {NoShoot}}

\* notification.shoot && currentShoot.value?.code === notification.shoot.code
carriesCurrentShoot(n) == n.shoot # NoShoot /\ isCurrentCode(n.shoot.code)

\* a policy that announces every archer who joins
handleShootNotification_fx_announcing(n) ==
  (IF carriesCurrentShoot(n) /\ pushNotificationManager /\ n.type = "score_update"
     THEN <<CallA("processShootUpdate", n.shoot.code, n.archerName, 0)>> ELSE <<>>) \o
  (IF n.type = "joined_shoot" THEN <<Call("toast.info", n.archerName)>>
   ELSE IF n.type \in {"left_shoot", "position_change", "score_update", "archer_finished"}
     THEN <<>> ELSE <<Call("console.log", n.type)>>)

\* a handler that hands every snapshot to the push manager, whatever the type
handleShootNotification_fx_everyType(n) ==
  (IF carriesCurrentShoot(n) /\ pushNotificationManager
     THEN <<CallA("processShootUpdate", n.shoot.code, n.archerName, 0)>> ELSE <<>>) \o
  (IF n.type \in {"joined_shoot", "left_shoot", "position_change", "score_update",
                  "archer_finished"}
     THEN <<>> ELSE <<Call("console.log", n.type)>>)

\* the calls handleShootNotification makes: the push manager for a score
\* update that carries the current shoot, console.log for an unknown type;
\* no case of the switch shows a toast
handleShootNotification_fx(n) ==
  (IF carriesCurrentShoot(n) /\ pushNotificationManager /\ n.type = "score_update"
     THEN <<CallA("processShootUpdate", n.shoot.code, n.archerName, 0)>> ELSE <<>>) \o
  (IF n.type \in {"joined_shoot", "left_shoot", "position_change", "score_update",
                  "archer_finished"}
     THEN <<>> ELSE <<Call("console.log", n.type)>>)

handleShootNotification_shoot(n) ==
  IF carriesCurrentShoot(n) THEN n.shoot ELSE currentShoot

\* a filter that only asks whether there is a session
notificationForCurrent_anySession(detail) == currentShoot # NoShoot

\* currentShoot.value?.code === notificationShootCode
notificationForCurrent(detail) == isCurrentCode(detail.code)

shoot_notification(detail) ==
  /\ webSocketService
  /\ wsState = "open"
  /\ IF notificationForCurrent(detail)
       THEN /\ currentShoot' = handleShootNotification_shoot(detail)
            /\ lastUpdateTime' = now
            /\ last' = Ev("shoot-notification", detail, "handled",
                          handleShootNotification_fx(detail))
       ELSE /\ UNCHANGED <<currentShoot, lastUpdateTime>>
            /\ last' = Ev("shoot-notification", detail, "discarded", <<>>)
  /\ UNCHANGED <<isLoading, connectionStatus, serviceVars, localStorage, clockVars,
                 wsState, subscribed, proc>>

(* ------------------------------- Next --------------------------------- *)
ChannelEvents ==
  \/ websocket_connected
  \/ websocket_disconnected
  \/ websocket_error
  \/ websocket_reconnecting
  \/ \E d \in ShootUpdatedDetails : shoot_updated(d)

\* the clock and the channel
Env == Tick \/ ChannelEvents

\* the whole store
Next ==
  \/ Env
  \/ \E d \in NotificationDetails : shoot_notification(d)
  \/ tryRestoreFromPersistedState
  \/ createShoot
  \/ joinShoot
  \/ connectAsViewer
  \/ leaveShoot
  \/ updateScore
  \/ finishShoot
  \/ initializeWebSocket
  \/ cleanup
Spec == Init /\ [][Next]_vars

\* A page load that finds nothing in storage.
InitEmpty == Init /\ localStorage = NoRecord

\* Sessions entered by joinShoot, left by leaveShoot or torn down by
\* cleanup, each possibly while the other's request is in flight.
NextJoin == Env \/ joinShoot \/ leaveShoot \/ cleanup
SpecJoin == InitEmpty /\ [][NextJoin]_vars

\* Sessions restored from whatever record the last page load left behind.
NextRestore == Env \/ tryRestoreFromPersistedState \/ leaveShoot \/ cleanup
SpecRestore == Init /\ [][NextRestore]_vars

\* Sessions made by createShoot.
NextCreate == Env \/ createShoot \/ cleanup
SpecCreate == InitEmpty /\ [][NextCreate]_vars

\* A spectator's page: connectAsViewer over whatever record an earlier
\* participation left behind.
NextViewer == Env \/ connectAsViewer \/ cleanup
SpecViewer == Init /\ [][NextViewer]_vars

\* Scoring in a session: entered as a viewer, scored and finished.
NextScore == Env \/ connectAsViewer \/ updateScore \/ finishShoot \/ cleanup
SpecScore == InitEmpty /\ [][NextScore]_vars

\* The notification feed of an open channel, with or without a session.
NextNotify ==
  \/ Tick
  \/ websocket_connected
  \/ \E d \in NotificationDetails : shoot_notification(d)
  \/ initializeWebSocket
  \/ connectAsViewer
SpecNotify == InitEmpty /\ [][NextNotify]_vars

\* Both feeds of an open channel in a session a spectator watches.
NextFeed ==
  \/ Tick
  \/ websocket_connected
  \/ \E d \in ShootUpdatedDetails : shoot_updated(d)
  \/ \E d \in NotificationDetails : shoot_notification(d)
  \/ connectAsViewer
SpecFeed == InitEmpty /\ [][NextFeed]_vars

\* One user going through the whole store: a new call is made only when
\* the one before has completed, while the clock, the channel's events and
\* cleanup (a page being left) come at any time.
OneCallInFlight == Cardinality({o \in Ops : proc'[o] # Idle}) <= 1
NextSequential ==
  \/ Tick
  \/ websocket_connected
  \/ websocket_disconnected
  \/ websocket_error
  \/ websocket_reconnecting
  \/ cleanup
  \/ tryRestoreFromPersistedState /\ OneCallInFlight
  \/ createShoot /\ OneCallInFlight
  \/ joinShoot /\ OneCallInFlight
  \/ connectAsViewer /\ OneCallInFlight
  \/ leaveShoot /\ OneCallInFlight
  \/ updateScore /\ OneCallInFlight
  \/ finishShoot /\ OneCallInFlight
  \/ initializeWebSocket /\ OneCallInFlight
SpecSequential == Init /\ [][NextSequential]_vars

(* ======================= 'shoot-updated' events ======================= *)
ShootUpdatedStep == last'.op = "shoot-updated"
\* the event's code is the active session's code (judged before the event)
ForActiveCode == currentShoot # NoShoot /\ currentShoot.code = last'.inp.code

\* C1: every 'shoot-updated' event for the active session's code replaces
\* currentShoot by the snapshot it carries, so after any sequence of such
\* events currentShoot is the snapshot of the one processed last.
C1_LastMatchingUpdateWins ==
  [][(ShootUpdatedStep /\ ForActiveCode) => currentShoot' = last'.inp.shoot]_vars

C1_Witness ==
  /\ last.op = "shoot-updated"
  /\ last.ret = "applied"
  /\ currentShoot = last.inp.shoot
  /\ lastUpdateTime = now

\* C2: a 'shoot-updated' event for another code, or with no active session,
\* changes none of currentShoot, lastUpdateTime, connectionStatus and the
\* persisted record.
C2_OtherCodeDiscarded ==
  [][(ShootUpdatedStep /\ ~ForActiveCode)
       => UNCHANGED <<currentShoot, lastUpdateTime, connectionStatus, localStorage>>]_vars

C2_Witness ==
  /\ last.op = "shoot-updated"
  /\ currentShoot # NoShoot
  /\ last.inp.code # currentShoot.code
  /\ localStorage # NoRecord

(* =================== tryRestoreFromPersistedState ===================== *)
RestoreStep(at) == last'.op = restoreName /\ last'.at = at
Millis24h == 24 * 60 * 60 * 1000
AgeOf(record) == now - record.joinedAt

\* the cases of C3, judged before the step
NothingToRestore ==
  \/ RestoreStep("call") /\ localStorage = NoRecord
  \/ RestoreStep("call") /\ localStorage # NoRecord /\ AgeOf(localStorage) > Millis24h
  \/ RestoreStep("getShoot") /\ last'.inp.kind = "null"
  \/ RestoreStep("getShoot") /\ last'.inp.kind = "ok"
       /\ proc["restore"].archerName \notin last'.inp.shoot.participants
  \/ RestoreStep("getShoot") /\ last'.inp.kind = "throw"

\* C3: with no record, a record older than 24 hours, a session that is
\* gone, an archer who is no longer listed, or a service error, restore
\* returns false and no persisted record is left.
C3_FailedRestorePurges ==
  [][NothingToRestore => (last'.ret = "false" /\ localStorage' = NoRecord)]_vars

\* the archer of a fresh record is not among the fetched session's participants
C3_Witness ==
  /\ last.op = restoreName
  /\ last.at = "getShoot"
  /\ last.inp.kind = "ok"
  /\ last.inp.shoot.participants = {"Bob"}
  /\ last.ret = "false"
  /\ localStorage = NoRecord

RestoreSubscribed(code) == Made(last'.fx, Call("subscribeToShoot", code))

\* C4 as amended: a record at most 24 hours old (exactly 24 hours included)
\* is kept and its session fetched; when the session comes back with the
\* archer listed it becomes currentShoot and the record stays; restore then
\* returns true, having called connect() unless the channel was connected
\* already, and it subscribes to the record's code exactly when the channel
\* is connected once that attempt is over.
C4_RestoreAdoptsSession ==
  [][/\ (RestoreStep("call") /\ localStorage # NoRecord /\ AgeOf(localStorage) <= Millis24h)
          => /\ localStorage' = localStorage
             /\ Made(last'.fx, Call("getShoot", localStorage.shootCode))
     /\ (RestoreStep("getShoot") /\ last'.inp.kind = "ok"
           /\ proc["restore"].archerName \in last'.inp.shoot.participants)
          => /\ currentShoot' = last'.inp.shoot
             /\ localStorage' = localStorage
             /\ IF wsState = "open"
                  THEN last'.ret = "true" /\ RestoreSubscribed(proc["restore"].code)
                  ELSE last'.ret = "" /\ Made(last'.fx, Call("connect", ""))
     /\ RestoreStep("connect")
          => /\ last'.ret = "true"
             /\ localStorage' = localStorage
             /\ RestoreSubscribed(proc["restore"].code) <=> wsState = "open"
             /\ last'.inp.kind = "ok" => RestoreSubscribed(proc["restore"].code)
    ]_vars

\* a record exactly 24 hours old has been restored
C4_Witness ==
  /\ last.op = restoreName
  /\ last.ret = "true"
  /\ localStorage # NoRecord
  /\ AgeOf(localStorage) = Millis24h
  /\ currentShoot # NoShoot
  /\ currentShoot.code = localStorage.shootCode
  /\ localStorage.shootCode \in subscribed

\* C4 as stated: every restore that returns true has subscribed to the code
C4_Original ==
  (last.op = restoreName /\ last.ret = "true") => MadeCall(last.fx, "subscribeToShoot")

(* ============================ leaveShoot ============================== *)
\* leaveShoot resumed from its service call
LeaveReplied == last'.op = "leaveShoot" /\ last'.at = "leave"

\* C5: when the service confirms the leave, leaveShoot ends with
\* currentShoot absent, the channel unsubscribed from the code of the
\* session it was called for, and no persisted record.
C5_LeaveSuccessClears ==
  [][(LeaveReplied /\ last'.inp.kind = "ok")
       => /\ currentShoot' = NoShoot
          /\ Made(last'.fx, Call("unsubscribeFromShoot", proc["leave"].code))
          /\ localStorage' = NoRecord]_vars

\* C6: when the service answers success:false or throws, leaveShoot leaves
\* currentShoot, the subscriptions and the persisted record as they are,
\* shows a failure toast and returns normally.
C6_LeaveFailureKeepsState ==
  [][(LeaveReplied /\ last'.inp.kind \in {"fail", "throw"})
       => /\ UNCHANGED <<currentShoot, subscribed, localStorage>>
          /\ MadeCall(last'.fx, "toast.error")
          /\ last'.ret = "void"]_vars

C6_Witness ==
  /\ last.op = "leaveShoot"
  /\ last.at = "leave"
  /\ last.inp.kind = "fail"
  /\ currentShoot # NoShoot
  /\ currentShoot.code \in subscribed
  /\ localStorage # NoRecord
  /\ MadeCall(last.fx, "toast.error")

(* ============================== cleanup =============================== *)
\* C7: cleanup() leaves the persisted record exactly as it was, with or
\* without an active session.
C7_CleanupKeepsRecord ==
  [][last'.op = "cleanup" => localStorage' = localStorage]_vars

\* cleanup tore down an active session and its record is still there
C7_Witness ==
  /\ last.op = "cleanup"
  /\ MadeCall(last.fx, "clearShootSettings")
  /\ localStorage # NoRecord

\* C8: right after cleanup() the channel (if there is one) has been told
\* to disconnect and is not connected, the push settings of the session
\* that was active have been cleared, connectionStatus is 'disconnected'
\* and currentShoot is absent.
C8_CleanupTearsDown ==
  [][last'.op = "cleanup"
       => /\ webSocketService => Made(last'.fx, Call("disconnect", ""))
          /\ wsState' # "open"
          /\ currentShoot # NoShoot
               => Made(last'.fx, Call("clearShootSettings", currentShoot.code))
          /\ connectionStatus' = "disconnected"
          /\ currentShoot' = NoShoot]_vars

C8_Witness ==
  /\ last.op = "cleanup"
  /\ last.fx = <<Call("disconnect", ""), Call("clearShootSettings", "AB12")>>
  /\ connectionStatus = "disconnected"
  /\ currentShoot = NoShoot
  /\ subscribed = {}

(* ============================ createShoot ============================= *)
CreateStep(at) == last'.op = "createShoot" /\ last'.at = at

\* C9: when create and join succeed, the join result becomes currentShoot,
\* {code, archerName, roundName} is persisted and updateScore is called for
\* the new code with the initial score, 0 included; the snapshot that call
\* returns is currentShoot when createShoot completes.
C9_CreateJoinsAndSyncs ==
  [][/\ (CreateStep("join") /\ last'.inp.kind = "ok")
          => /\ currentShoot' = last'.inp.shoot
             /\ localStorage'.shootCode = proc["create"].code
             /\ localStorage'.archerName = proc["create"].archerName
             /\ localStorage'.roundName = proc["create"].roundName
             /\ Made(last'.fx, CallA("updateScore", proc["create"].code,
                                     proc["create"].archerName, proc["create"].score))
             /\ last'.ret = ""
     /\ (CreateStep("sync") /\ last'.inp.kind = "ok")
          => /\ currentShoot' = last'.inp.shoot
             /\ last'.ret = "void"
    ]_vars

\* the sync call listed only the creator: that is currentShoot at the end
C9_Witness ==
  /\ last.op = "createShoot"
  /\ last.at = "sync"
  /\ last.ret = "void"
  /\ last.inp.kind = "ok"
  /\ currentShoot = [code |-> "AB12", participants |-> {"Alice"}]
  /\ localStorage.shootCode = "AB12"
  /\ localStorage.archerName = "Alice"
  /\ ~isLoading

\* C10: when the join is rejected, currentShoot becomes the bare session
\* create returned, no updateScore call is made, nothing is persisted and
\* createShoot returns normally.
C10_CreateFallsBackToBareShoot ==
  [][(CreateStep("join") /\ last'.inp.kind = "fail")
       => /\ currentShoot' = [code |-> proc["create"].code, participants |-> {}]
          /\ ~MadeCall(last'.fx, "updateScore")
          /\ localStorage' = localStorage
          /\ last'.ret = "void"]_vars

C10_Witness ==
  /\ last.op = "createShoot"
  /\ last.at = "join"
  /\ last.inp.kind = "fail"
  /\ last.ret = "void"
  /\ currentShoot \in Shoots
  /\ currentShoot.participants = {}
  /\ localStorage = NoRecord

\* C11: when the create, join or sync request of createShoot throws,
\* createShoot shows the failure toast and rethrows to its caller, and
\* isLoading is false when it has completed.
C11_CreateRethrows ==
  [][(last'.op = "createShoot" /\ last'.at \in {"create", "join", "sync"}
        /\ last'.inp.kind = "throw")
       => /\ Made(last'.fx, Call("toast.error", "Failed to create shoot"))
          /\ last'.ret = "threw"
          /\ proc'["create"] = Idle
          /\ isLoading' = FALSE]_vars

\* the sync request threw after the join had been adopted
C11_Witness ==
  /\ last.op = "createShoot"
  /\ last.at = "sync"
  /\ last.inp.kind = "throw"
  /\ last.ret = "threw"
  /\ MadeCall(last.fx, "toast.error")
  /\ ~isLoading
  /\ currentShoot # NoShoot

(* ============================= joinShoot ============================== *)
JoinStep(at) == last'.op = "joinShoot" /\ last'.at = at

\* C12: when the service's join reports failure (success false, or no
\* session in the reply), joinShoot returns false and leaves currentShoot,
\* the persisted record, connectionStatus and the subscriptions unchanged.
C12_JoinRejectedKeepsState ==
  [][(JoinStep("join") /\ last'.inp.kind = "fail")
       => /\ last'.ret = "false"
          /\ proc'["join"] = Idle
          /\ UNCHANGED <<currentShoot, localStorage, connectionStatus, subscribed>>]_vars

\* a second join is rejected while the first one's session is live
C12_Witness ==
  /\ last.op = "joinShoot"
  /\ last.at = "join"
  /\ last.inp.kind = "fail"
  /\ last.ret = "false"
  /\ currentShoot # NoShoot
  /\ localStorage # NoRecord
  /\ connectionStatus = "connected"
  /\ currentShoot.code \in subscribed

\* C13 as amended: joinShoot never ends by throwing; it returns false
\* exactly when the join request reports failure or throws, or the sync
\* request throws.  A rejected connect() does not end the call, and a sync
\* reply of success:false is followed by true.  A call whose join request
\* did not succeed ends there with false, so true is only returned after a
\* successful join.
C13_JoinReportsByBoolean ==
  [][last'.op = "joinShoot"
       => /\ last'.ret \in {"", "true", "false"}
          /\ last'.ret = "false"
               <=> \/ last'.at = "join" /\ last'.inp.kind \in {"fail", "throw"}
                   \/ last'.at = "sync" /\ last'.inp.kind = "throw"
          /\ last'.ret = "true"
               <=> last'.at = "sync" /\ last'.inp.kind \in {"ok", "fail"}
          /\ last'.at = "connect" => (last'.ret = "" /\ proc'["join"].pc = "sync")
          /\ last'.ret # "" <=> proc'["join"] = Idle]_vars

\* connect() was rejected and the sync answered success:false, and the
\* call returned true
C13_Witness ==
  /\ last.op = "joinShoot"
  /\ last.at = "sync"
  /\ last.inp.kind = "fail"
  /\ last.ret = "true"
  /\ connectionStatus = "error"
  /\ subscribed = {}
  /\ currentShoot # NoShoot

\* C13 as stated: whichever request fails or throws, the call ends there
\* with false
C13_Original ==
  (last.op = "joinShoot" /\ last.inp.kind \in {"fail", "throw"}) => last.ret = "false"

\* the calls joinShoot makes once the connect attempt is over
JoinSubscribesThenSyncs(p) ==
  last'.fx = (IF wsState = "open" THEN <<Call("subscribeToShoot", p.code)>> ELSE <<>>)
             \o <<CallA("updateScore", p.code, p.archerName, p.score)>>

\* C14 as amended: when the join request succeeds, its session becomes
\* currentShoot and {code, archerName, roundName} is persisted; connect()
\* is called unless the channel is connected already; when that attempt is
\* over the code is subscribed if the channel is connected, and only then
\* the sync request is issued, at score 0 too.  A successful sync reply
\* replaces currentShoot; joinShoot then returns true, as it does after a
\* reply of success:false, and returns false if the sync request throws.
C14_JoinAdoptsAndSyncs ==
  [][/\ (JoinStep("join") /\ last'.inp.kind = "ok")
          => /\ currentShoot' = last'.inp.shoot
             /\ localStorage' = [shootCode |-> proc["join"].code,
                                 archerName |-> proc["join"].archerName,
                                 roundName |-> proc["join"].roundName,
                                 joinedAt |-> now]
             /\ last'.ret = ""
             /\ IF wsState = "open"
                  THEN JoinSubscribesThenSyncs(proc["join"])
                  ELSE last'.fx = <<Call("connect", "")>>
     /\ JoinStep("connect")
          => /\ JoinSubscribesThenSyncs(proc["join"])
             /\ last'.inp.kind = "ok" => proc["join"].code \in subscribed'
     /\ (JoinStep("sync") /\ last'.inp.kind = "ok")
          => (currentShoot' = last'.inp.shoot /\ last'.ret = "true")
     /\ (JoinStep("sync") /\ last'.inp.kind = "fail")
          => (currentShoot' = currentShoot /\ last'.ret = "true")
     /\ (JoinStep("sync") /\ last'.inp.kind = "throw")
          => (currentShoot' = currentShoot /\ last'.ret = "false")
    ]_vars

\* joined at score 0: connected, subscribed, then the sync request issued
C14_Witness ==
  /\ last.op = "joinShoot"
  /\ last.at = "connect"
  /\ last.fx = <<Call("subscribeToShoot", "AB12"), CallA("updateScore", "AB12", "Alice", 0)>>
  /\ currentShoot \in ShootsOf("AB12")
  /\ localStorage.shootCode = "AB12"
  /\ "AB12" \in subscribed

\* C14 as stated: the sync request is issued with the code subscribed
C14_Original ==
  (last.op = "joinShoot" /\ MadeCall(last.fx, "updateScore"))
    => MadeCall(last.fx, "subscribeToShoot")

(* ========================== connectAsViewer =========================== *)
ViewerStep(at) == last'.op = "connectAsViewer" /\ last'.at = at
ViewerSubscribed == Made(last'.fx, Call("subscribeToShoot", proc["viewer"].code))

\* C15 as amended: connectAsViewer never calls the service's join and
\* never touches the persisted record.  When getShoot returns a session it
\* becomes currentShoot and the call returns true, having called connect()
\* unless the channel was connected already, and having subscribed to the
\* code exactly when the channel is connected once that attempt is over;
\* when getShoot returns none or throws, the call returns false with
\* currentShoot unchanged.
C15_ViewerOnlyWatches ==
  [][last'.op = "connectAsViewer"
       => /\ ~MadeCall(last'.fx, "joinShoot")
          /\ localStorage' = localStorage
          /\ (last'.at = "getShoot" /\ last'.inp.kind = "ok")
               => /\ currentShoot' = last'.inp.shoot
                  /\ IF wsState = "open"
                       THEN last'.ret = "true" /\ ViewerSubscribed
                       ELSE last'.ret = "" /\ last'.fx = <<Call("connect", "")>>
          /\ (last'.at = "getShoot" /\ last'.inp.kind # "ok")
               => /\ last'.ret = "false"
                  /\ last'.fx = <<>>
                  /\ UNCHANGED <<currentShoot, subscribed>>
          /\ last'.at = "connect"
               => /\ last'.ret = "true"
                  /\ currentShoot' = currentShoot
                  /\ ViewerSubscribed <=> wsState = "open"
                  /\ last'.inp.kind = "ok" => ViewerSubscribed
          /\ last'.ret = "true" => last'.at = "connect" \/ last'.inp.kind = "ok"]_vars

\* a spectator watches CD34 over the record of an earlier session AB12
C15_Witness ==
  /\ last.op = "connectAsViewer"
  /\ last.ret = "true"
  /\ currentShoot \in ShootsOf("CD34")
  /\ "CD34" \in subscribed
  /\ localStorage.shootCode = "AB12"
  /\ localStorage.joinedAt = StartTime

\* C15 as stated: a viewer call that returns true has subscribed the code
C15_Original ==
  (last.op = "connectAsViewer" /\ last.ret = "true")
    => MadeCall(last.fx, "subscribeToShoot")

(* ====================== updateScore / finishShoot ===================== *)
\* C16: no step of updateScore assigns currentShoot, whatever the service
\* returns (a snapshot, a failure or an exception): between its call and
\* its completion currentShoot changes only by what else runs meanwhile.
C16_UpdateScoreNeverAssigns ==
  [][last'.op = "updateScore" => currentShoot' = currentShoot]_vars

\* the service returned a snapshot other than currentShoot, which stayed
C16_Witness ==
  /\ last.op = "updateScore"
  /\ last.at = "update"
  /\ last.inp.kind = "ok"
  /\ currentShoot # NoShoot
  /\ last.inp.shoot.code = currentShoot.code
  /\ last.inp.shoot # currentShoot

\* C17: when the service reports success finishShoot replaces currentShoot
\* by the returned snapshot and shows a success toast; when it reports
\* failure or throws, currentShoot is unchanged and a failure toast is shown.
C17_FinishAdoptsSnapshot ==
  [][(last'.op = "finishShoot" /\ last'.at = "finish")
       => IF last'.inp.kind = "ok"
            THEN /\ currentShoot' = last'.inp.shoot
                 /\ MadeCall(last'.fx, "toast.success")
                 /\ ~MadeCall(last'.fx, "toast.error")
            ELSE /\ currentShoot' = currentShoot
                 /\ MadeCall(last'.fx, "toast.error")
                 /\ ~MadeCall(last'.fx, "toast.success")]_vars

C17_Witness ==
  /\ last.op = "finishShoot"
  /\ last.at = "finish"
  /\ last.inp.kind = "ok"
  /\ currentShoot = last.inp.shoot
  /\ currentShoot.participants = {"Alice", "Bob"}
  /\ MadeCall(last.fx, "toast.success")

(* ===================== connection events of the channel =============== *)
\* C18: on 'websocket-connected' connectionStatus becomes 'connected' and,
\* if a session is active at that moment, subscribeToShoot is called with
\* its code (and with no session nothing is subscribed): a reconnect after
\* a drop subscribes the active code again by itself.
C18_ConnectedResubscribes ==
  [][last'.op = "websocket-connected"
       => /\ connectionStatus' = "connected"
          /\ IF currentShoot # NoShoot
               THEN /\ last'.fx = <<Call("subscribeToShoot", currentShoot.code)>>
                    /\ currentShoot.code \in subscribed'
               ELSE /\ last'.fx = <<>>
                    /\ subscribed' = subscribed]_vars

\* the channel came back while a session that had received updates is
\* active and no operation is running
C18_Witness ==
  /\ last.op = "websocket-connected"
  /\ last.fx = <<Call("subscribeToShoot", "AB12")>>
  /\ connectionStatus = "connected"
  /\ currentShoot \in ShootsOf("AB12")
  /\ subscribed = {"AB12"}
  /\ lastUpdateTime # 0
  /\ \A o \in Ops : proc[o] = Idle

\* C19: 'websocket-disconnected' sets connectionStatus to 'disconnected'
\* and 'websocket-error' sets it to 'error'; neither changes currentShoot,
\* lastUpdateTime, isLoading or the persisted record.
C19_DropKeepsSession ==
  [][/\ last'.op = "websocket-disconnected" => connectionStatus' = "disconnected"
     /\ last'.op = "websocket-error" => connectionStatus' = "error"
     /\ last'.op \in {"websocket-disconnected", "websocket-error"}
          => UNCHANGED <<currentShoot, lastUpdateTime, isLoading, localStorage>>]_vars

C19_Witness ==
  /\ last.op = "websocket-disconnected"
  /\ connectionStatus = "disconnected"
  /\ currentShoot # NoShoot
  /\ lastUpdateTime # 0
  /\ localStorage # NoRecord
  /\ localStorage.shootCode = currentShoot.code

(* ======================== 'shoot-notification' ======================== *)
NotificationStep == last'.op = "shoot-notification"

\* C20: a 'shoot-notification' for another code than the active session's,
\* or with no active session, is dropped whole: currentShoot and
\* lastUpdateTime stay, handleShootNotification is not run and the push
\* manager is not called.
C20_OtherNotificationDiscarded ==
  [][(NotificationStep /\ ~(currentShoot # NoShoot /\ currentShoot.code = last'.inp.code))
       => /\ UNCHANGED <<currentShoot, lastUpdateTime>>
          /\ last'.ret = "discarded"
          /\ last'.fx = <<>>]_vars

\* a score update addressed to another code, though the snapshot it
\* carries has the active session's code
C20_Witness ==
  /\ last.op = "shoot-notification"
  /\ last.ret = "discarded"
  /\ last.inp.type = "score_update"
  /\ pushNotificationManager
  /\ currentShoot # NoShoot
  /\ last.inp.code # currentShoot.code
  /\ last.inp.shoot # NoShoot
  /\ last.inp.shoot.code = currentShoot.code
  /\ last.inp.shoot # currentShoot

\* the event is for the active session's code (judged before the event)
NotificationForActive ==
  NotificationStep /\ currentShoot # NoShoot /\ currentShoot.code = last'.inp.code
Toasted(fx) == \E i \in DOMAIN fx : fx[i].call \in {"toast.error", "toast.success", "toast.info"}
SilentTypes == {"joined_shoot", "left_shoot", "position_change", "score_update", "mystery"}

C22_SamePayloadTwice ==
  [][\A d \in ShootUpdatedDetails :
       (ShootUpdatedStep /\ ForActiveCode /\ last'.inp = d)
         => /\ currentShoot' = d.shoot
            /\ (shootUpdated_shoot(d))' = d.shoot
            /\ currentShoot = d.shoot => currentShoot' = currentShoot
            /\ ~MadeCall(last'.fx, "processShootUpdate")]_vars

\* the payload has been applied, the channel is still open for it to
\* arrive again, and the clock has moved since the session was joined
C22_Witness ==
  /\ last.op = "shoot-updated"
  /\ last.ret = "applied"
  /\ currentShoot = last.inp.shoot
  /\ currentShoot.participants = {"Bob"}
  /\ wsState = "open"
  /\ ticks = 1
  /\ localStorage.joinedAt < now

(* =================== the persisted record's lifecycle ================= *)
\* a createShoot or joinShoot call whose join was accepted completes
\* without throwing / with true
JoinedAndCompleted(o) ==
  \/ o = "create" /\ CreateStep("sync") /\ last'.ret = "void"
  \/ o = "join" /\ JoinStep("sync") /\ last'.ret = "true"
RecordRemoved == localStorage # NoRecord /\ localStorage' = NoRecord

C24_UpdateTimeNeverDecreases ==
  [][(ShootUpdatedStep /\ ForActiveCode)
       => /\ lastUpdateTime' = now
          /\ lastUpdateTime' >= lastUpdateTime
          /\ lastUpdateTime' > lastUpdateTime <=> now > lastUpdateTime]_vars

\* an update applied after the clock has ticked
C24_Witness ==
  /\ last.op = "shoot-updated"
  /\ last.ret = "applied"
  /\ ticks = 1
  /\ lastUpdateTime = StartTime + 1

\* C24 as stated: of two matching events processed one after the other,
\* the second stores a strictly greater time than the first
C24_Original ==
  [][(ShootUpdatedStep /\ ForActiveCode /\ last.op = "shoot-updated" /\ last.ret = "applied")
       => lastUpdateTime' > lastUpdateTime]_vars

(* ================ restore with nothing usable in storage ============== *)
NoUsableRecord ==
  RestoreStep("call") /\ (localStorage = NoRecord \/ AgeOf(localStorage) > Millis24h)

\* C25 as amended: with the record absent or expired restore returns
\* false at once: no service request, no connect(), no collaborator made,
\* currentShoot and connectionStatus as before; an absent record leaves
\* storage as it was, an expired one is removed from it.
C25_RestoreWithoutRecord ==
  [][NoUsableRecord
       => /\ last'.ret = "false"
          /\ last'.fx = <<>>
          /\ proc'["restore"] = Idle
          /\ UNCHANGED <<currentShoot, connectionStatus, wsState, subscribed, serviceVars,
                         isLoading, lastUpdateTime>>
          /\ localStorage' = NoRecord]_vars

\* a page load whose first act was a restore that found nothing usable
C25_Witness ==
  /\ last.op = restoreName
  /\ last.at = "call"
  /\ last.ret = "false"
  /\ localStorage = NoRecord
  /\ ~shootService
  /\ wsState = "idle"
  /\ connectionStatus = "disconnected"

\* C25 as stated: storage holds after the call what it held before
C25_Original ==
  [][NoUsableRecord => localStorage' = localStorage]_vars

(* ===================== push settings of a left session ================ *)
\* C26: after a leave the service confirmed, clearShootSettings has been
\* called on the push manager for the code of the session that was left.
C26_LeaveClearsPushSettings ==
  [][(LeaveReplied /\ last'.inp.kind = "ok" /\ pushNotificationManager)
       => Made(last'.fx, Call("clearShootSettings", proc["leave"].code))]_vars

(* ================= createShoot: subscribe, then join ================== *)
CreateIssuesJoin == last'.op = "createShoot" /\ MadeCall(last'.fx, "joinShoot")

\* C27 as amended: createShoot issues the join request only once the
\* connect attempt is over (or the channel was connected already); when
\* the channel is connected at that moment subscribeToShoot(new code) is
\* called first, and when connect() was rejected the join request is
\* issued with no subscription made.
C27_CreateSubscribesBeforeJoin ==
  [][/\ CreateIssuesJoin
          => /\ last'.at \in {"create", "connect"}
             /\ last'.at = "create" => wsState = "open"
             /\ last'.fx =
                  (IF wsState = "open"
                     THEN <<Call("subscribeToShoot", proc'["create"].code)>> ELSE <<>>)
                  \o <<CallA("joinShoot", proc'["create"].code, proc["create"].archerName, 0)>>
             /\ wsState = "open" => proc'["create"].code \in subscribed'
     /\ (CreateStep("create") /\ last'.inp.kind = "ok" /\ wsState # "open")
          => last'.fx = <<Call("connect", "")>>
    ]_vars

\* connected, subscribed to the new code, and the join request issued
C27_Witness ==
  /\ last.op = "createShoot"
  /\ last.at = "connect"
  /\ last.fx = <<Call("subscribeToShoot", "CD34"), CallA("joinShoot", "CD34", "Alice", 0)>>
  /\ "CD34" \in subscribed
  /\ connectionStatus = "connected"
  /\ proc["create"].pc = "join"

\* C27 as stated: the join request is never issued without the new code
\* having been subscribed
C27_Original ==
  (last.op = "createShoot" /\ MadeCall(last.fx, "joinShoot"))
    => (MadeCall(last.fx, "subscribeToShoot") /\ proc["create"].code \in subscribed)

(* ===================== who writes connectionStatus ==================== *)
LifecycleEvents ==
  {"websocket-connected", "websocket-disconnected", "websocket-error",
   "websocket-reconnecting"}
\* the step runs initializeWebSocket up to its await
RunsInitializeWebSocket ==
  \/ CreateStep("create") /\ last'.inp.kind = "ok"
  \/ JoinStep("join") /\ last'.inp.kind = "ok"
  \/ ViewerStep("getShoot") /\ last'.inp.kind = "ok"
  \/ RestoreStep("getShoot") /\ last'.inp.kind = "ok"
       /\ proc["restore"].archerName \in last'.inp.shoot.participants
  \/ last'.op = "initializeWebSocket" /\ last'.at = "call"
\* the step resumes initializeWebSocket from a rejected connect()
ConnectRejected == last'.at = "connect" /\ last'.inp.kind = "throw"

\* C28 as amended: connectionStatus is written by the four lifecycle
\* handlers, by initializeWebSocket inside create, join, viewer, restore
\* and connection initialisation ('connected' or 'connecting' before
\* connect(), 'error' when connect() is rejected) and by cleanup
\* ('disconnected'); leaveShoot, updateScore, finishShoot and every other
\* part of the flows leave it alone.
C28_StatusWriters ==
  [][/\ connectionStatus' # connectionStatus
          => \/ last'.op \in LifecycleEvents
             \/ last'.op = "cleanup"
             \/ RunsInitializeWebSocket
             \/ ConnectRejected
     /\ RunsInitializeWebSocket
          => connectionStatus' = IF wsState = "open" THEN "connected" ELSE "connecting"
     /\ ConnectRejected => connectionStatus' = "error"
     /\ last'.op = "cleanup" => connectionStatus' = "disconnected"
     /\ last'.op \in {"leaveShoot", "updateScore", "finishShoot"}
          => connectionStatus' = connectionStatus
    ]_vars

\* connection initialisation, called with a session active and the
\* channel not connected, has put 'connecting'
C28_Witness ==
  /\ last.op = "initializeWebSocket"
  /\ last.at = "call"
  /\ connectionStatus = "connecting"
  /\ wsState = "connecting"
  /\ currentShoot # NoShoot

\* C28 as stated: connectionStatus changes in the lifecycle handlers only
C28_Original ==
  [][connectionStatus' # connectionStatus => last'.op \in LifecycleEvents]_vars

(* ================ a failed request and the state before it ============ *)
\* the step ends a createShoot call by throwing, or a joinShoot call with false
FailedCall(o) ==
  \/ o = "create" /\ last'.op = "createShoot" /\ last'.ret = "threw"
  \/ o = "join" /\ last'.op = "joinShoot" /\ last'.ret = "false"
\* the call is waiting for its sync request, which it issues only after it
\* has assigned the joined session to currentShoot and written the record
HasAdopted(o) == proc[o].pc = "sync"

\* C29: a createShoot that throws and a joinShoot that returns false leave
\* currentShoot and the record as they were before the call: the failing
\* step changes neither, and the call has not replaced them earlier, also
\* when the join was accepted and it is the sync request that throws.
C29_FailureRetainsState ==
  [][\A o \in {"create", "join"} :
       FailedCall(o) => (UNCHANGED <<currentShoot, localStorage>> /\ ~HasAdopted(o))]_vars

(* ===================== a rejected connect() in a flow ================= *)
Flows == {"createShoot", "joinShoot", "connectAsViewer", restoreName}

\* C30: when connect() is rejected during createShoot, joinShoot,
\* connectAsViewer or restore, the flow is not ended by it: no exception,
\* no false, no toast; connectionStatus becomes 'error' and currentShoot
\* is left as the flow set it; viewer and restore return true there and
\* then, create goes on to its join request and join to its sync request.
C30_RejectedConnectIsNotFatal ==
  [][(ConnectRejected /\ last'.op \in Flows)
       => /\ connectionStatus' = "error"
          /\ ~Toasted(last'.fx)
          /\ last'.ret \notin {"false", "threw"}
          /\ UNCHANGED <<currentShoot, localStorage>>
          /\ last'.op \in {"connectAsViewer", restoreName}
               => (last'.ret = "true" /\ last'.fx = <<>>)
          /\ last'.op = "createShoot"
               => (last'.ret = "" /\ MadeCall(last'.fx, "joinShoot")
                   /\ proc'["create"].pc = "join")
          /\ last'.op = "joinShoot"
               => (last'.ret = "" /\ MadeCall(last'.fx, "updateScore")
                   /\ proc'["join"].pc = "sync")]_vars

\* a viewer whose connect() was rejected: true, the session shown, status 'error'
C30_Witness ==
  /\ last.op = "connectAsViewer"
  /\ last.at = "connect"
  /\ last.inp.kind = "throw"
  /\ last.ret = "true"
  /\ last.fx = <<>>
  /\ connectionStatus = "error"
  /\ currentShoot # NoShoot
  /\ ~isLoading

(* ==================== connect() while one is pending ================== *)
\* a flow is suspended at `await webSocketService.connect()`
ConnectPending == \E o \in Ops : proc[o].pc = "connect"

\* C31: connect() is only called in a step that found isConnected() false,
\* never while the channel is connected, and never while the connect() of
\* another flow is still pending.
C31_NoRedundantConnect ==
  [][MadeCall(last'.fx, "connect") => (~isConnected /\ ~ConnectPending)]_vars

(* ==================== one subscription at a time ====================== *)
\* C32: the codes subscribed and not unsubscribed on the current
\* connection are at most one, also after a second session is joined or
\* viewed without the first being left.
C32_AtMostOneSubscription == Cardinality(subscribed) <= 1

(* ================= when the push manager is called ==================== *)
\* how many times a step called processShootUpdate
ProcessCalls(fx) == Cardinality({i \in DOMAIN fx : fx[i].call = "processShootUpdate"})
\* a 'shoot-notification' with the active code, type score_update and a
\* snapshot of the active code (judged before the event)
QualifyingNotification ==
  /\ NotificationStep
  /\ currentShoot # NoShoot
  /\ last'.inp.code = currentShoot.code
  /\ last'.inp.type = "score_update"
  /\ last'.inp.shoot # NoShoot
  /\ last'.inp.shoot.code = currentShoot.code

\* C33: processShootUpdate is called exactly once, for the snapshot's code
\* and the notification's archer, by every 'shoot-notification' that has
\* the active code, type score_update and a snapshot of the active code,
\* and the push manager exists by then; no other step calls it: no other
\* notification type, no 'shoot-updated' event, no operation.
C33_PushOnlyForScoreUpdates ==
  [][/\ ProcessCalls(last'.fx) = IF QualifyingNotification THEN 1 ELSE 0
     /\ QualifyingNotification
          => /\ pushNotificationManager
             /\ Made(last'.fx, CallA("processShootUpdate", last'.inp.shoot.code,
                                     last'.inp.archerName, 0))]_vars

\* Bob's score update reached the push manager with the new roster
C33_Witness ==
  /\ last.op = "shoot-notification"
  /\ last.inp.type = "score_update"
  /\ last.inp.archerName = "Bob"
  /\ last.fx = <<CallA("processShootUpdate", "AB12", "Bob", 0)>>
  /\ currentShoot = [code |-> "AB12", participants |-> {"Alice", "Bob"}]
  /\ pushNotificationManager

(* ============== a session cleared while a request is in flight ======== *)
\* the operations that assign currentShoot when a response is processed
AssigningFlows == {"createShoot", "joinShoot", "connectAsViewer", restoreName, "finishShoot"}
\* a flow resumed from one of its awaits: its call was made earlier
ResponseStep == last'.op \in AssigningFlows /\ last'.at # "call"
\* the step just taken cleared the session: cleanup(), or a confirmed leave
ClearedJustNow ==
  /\ currentShoot = NoShoot
  /\ \/ last.op = "cleanup"
     \/ last.op = "leaveShoot" /\ last.at = "leave" /\ last.inp.kind = "ok"

\* C34 as amended: cleanup() and a confirmed leave leave currentShoot
\* absent; from absent it only becomes present when a response of
\* createShoot, joinShoot, connectAsViewer, tryRestoreFromPersistedState or
\* finishShoot is processed, never by a channel event, updateScore or the
\* start of a call.  Nothing is cancelled: the response of a request that
\* was in flight when the session was cleared assigns currentShoot like any
\* other.
C34_OnlyResponsesRepopulate ==
  [][/\ (last'.op = "cleanup" \/ (LeaveReplied /\ last'.inp.kind = "ok"))
          => currentShoot' = NoShoot
     /\ (currentShoot = NoShoot /\ currentShoot' # NoShoot)
          => (ResponseStep /\ last'.inp.kind \in {"ok", "fail"})
     /\ (JoinStep("join") \/ JoinStep("sync")) /\ last'.inp.kind = "ok"
          => currentShoot' = last'.inp.shoot
    ]_vars

\* cleanup() ran while joinShoot's sync request was in flight, and the
\* reply made the session current again
C34_Witness ==
  /\ last.op = "joinShoot"
  /\ last.at = "sync"
  /\ last.inp.kind = "ok"
  /\ wsState = "idle"
  /\ subscribed = {}
  /\ connectionStatus = "disconnected"
  /\ currentShoot = last.inp.shoot

\* C34 as stated: the response of a request that was in flight when the
\* session was cleared leaves currentShoot absent
C34_Original ==
  [][(ClearedJustNow /\ ResponseStep) => currentShoot' = NoShoot]_vars

(* ============ a leave confirmed after the session changed ============= *)
\* currentShoot is no longer the session the pending leave was sent for
SessionChangedSinceLeave ==
  currentShoot = NoShoot \/ currentShoot.code # proc["leave"].code

\* C35: when the service confirms a leave whose session was replaced or
\* cleared while the request was in flight, leaveShoot unsubscribes the
\* code it sent, and no persisted record for that code is left.
C35_LeaveActsOnSentCode ==
  [][(LeaveReplied /\ last'.inp.kind = "ok" /\ SessionChangedSinceLeave)
       => /\ Made(last'.fx, Call("unsubscribeFromShoot", proc["leave"].code))
          /\ subscribed' = unsubscribeFromShoot(subscribed, proc["leave"].code)
          /\ localStorage'.shootCode # proc["leave"].code]_vars

(* ============ the persisted record and the current session ============ *)
NoOperationInFlight == \A o \in Ops : proc[o] = Idle
\* there is no record, or no session, or the record names the session
RecordMatchesSession ==
  \/ localStorage = NoRecord
  \/ currentShoot = NoShoot
  \/ localStorage.shootCode = currentShoot.code
\* the steps that set currentShoot and leave the record as it is
AdoptsWithoutRecord ==
  \/ ViewerStep("getShoot") /\ last'.inp.kind = "ok"
  \/ CreateStep("join") /\ last'.inp.kind = "fail"
  \/ last'.op = "finishShoot" /\ last'.at = "finish" /\ last'.inp.kind = "ok"

\* C36 as amended: with calls made one after the other, a record that is
\* written names the session that becomes current in the same step, and
\* restore makes the record's session current; so the record and
\* currentShoot name the same session until connectAsViewer, createShoot's
\* fallback after a rejected join, or a finishShoot reply sets currentShoot
\* without touching the record: only these steps make the two differ.
C36_RecordFollowsParticipation ==
  [][/\ (localStorage' # localStorage /\ localStorage' # NoRecord)
          => localStorage'.shootCode = currentShoot'.code
     /\ (RestoreStep("getShoot") /\ currentShoot' # currentShoot)
          => (localStorage' = localStorage /\ localStorage.shootCode = currentShoot'.code)
     /\ AdoptsWithoutRecord => localStorage' = localStorage
     /\ (RecordMatchesSession /\ ~RecordMatchesSession') => AdoptsWithoutRecord
    ]_vars

\* a second session was joined over the record of the first, and the
\* record names the second
C36_Witness ==
  /\ NoOperationInFlight
  /\ last.op = "joinShoot"
  /\ last.ret = "true"
  /\ currentShoot \in ShootsOf("CD34")
  /\ localStorage.shootCode = "CD34"
  /\ localStorage.joinedAt = StartTime + 1
  /\ "AB12" \in subscribed

\* C36 as stated: with no operation in flight, a record and a session
\* that both exist name the same session
C36_Original == NoOperationInFlight => RecordMatchesSession

(* ============== a connected client follows its session ================ *)
\* C37: whenever no operation is in flight, the channel is connected and a
\* session is current, the channel is subscribed to the session's code.
C37_ConnectedSessionIsSubscribed ==
  (NoOperationInFlight /\ isConnected /\ currentShoot # NoShoot)
    => currentShoot.code \in subscribed

(* ===================== isLoading and overlapping calls ================ *)
\* the operations that raise isLoading while they run
LoadingOps == {"create", "join", "viewer", "leave"}

\* C38: isLoading is true exactly while at least one createShoot,
\* joinShoot, connectAsViewer or leaveShoot call is suspended, also when
\* two of them overlap and one completes before the other.
C38_LoadingWhileSuspended == isLoading <=> \E o \in LoadingOps : proc[o] # Idle

====
